---- MODULE Spec2Model ----
(***************************************************************************)
(* Model of the J3Q Equities Prediction API (src/J3Qapi.py): API key       *)
(* loading, the get_api_key dependency, the five GET handlers, the schema  *)
(* introspection helpers and the SQLite store they read.                   *)
(*                                                                         *)
(* Conventions.  A Python str is a sequence of one-character strings.      *)
(* Optional[x] is a sequence of length 0 (None) or 1 (the value).  SQL     *)
(* text is a sequence of tokens; table and column names are tokens.        *)
(***************************************************************************)
EXTENDS Integers, Sequences, FiniteSets, TLC

\* ------------------------------------------------------------------ bounds
MaxEnvLen == 2
MaxCsvRows == 1
MaxMetricsLen == 3
MaxGarbage == 0

\* ------------------------------------------------------- Python primitives
None == <<>>
Some(v) == <<v>>

\* truth value of an Optional[str]: None and "" are falsy
Truthy(x) == x # None /\ x[1] # <<>>

Range(s) == {s[i] : i \in 1..Len(s)}

\* x in list
In(x, s) == \E i \in 1..Len(s) : s[i] = x

\* all strings over an alphabet of length at most n
RECURSIVE StringsUpTo(_, _)
StringsUpTo(alphabet, n) ==
    IF n = 0 THEN {<<>>}
    ELSE LET shorter == StringsUpTo(alphabet, n - 1)
         IN shorter \cup {Append(s, c) : s \in shorter, c \in alphabet}

\* str.split(sep)
RECURSIVE split(_, _)
split(s, sep) ==
    IF \A i \in 1..Len(s) : s[i] # sep THEN <<s>>
    ELSE LET i == CHOOSE k \in 1..Len(s) :
                      s[k] = sep /\ \A j \in 1..(k - 1) : s[j] # sep
         IN <<SubSeq(s, 1, i - 1)>> \o split(SubSeq(s, i + 1, Len(s)), sep)

\* str.strip()
RECURSIVE strip(_)
strip(s) ==
    IF s = <<>> THEN s
    ELSE IF s[1] = " " THEN strip(Tail(s))
    ELSE IF s[Len(s)] = " " THEN strip(SubSeq(s, 1, Len(s) - 1))
    ELSE s

\* sep.join(list of token sequences)
RECURSIVE join(_, _)
join(sep, parts) ==
    IF parts = <<>> THEN <<>>
    ELSE IF Len(parts) = 1 THEN parts[1]
    ELSE parts[1] \o <<sep>> \o join(sep, Tail(parts))

\* ---------------------------------------------------------------- calendar
TimedeltaDays == 182

\* date.fromordinal(n) as <<year, month, day>>
civil_from_ordinal(n) ==
    LET z == n + 305
        era == z \div 146097
        doe == z - era * 146097
        yoe == (doe - doe \div 1460 + doe \div 36524 - doe \div 146096) \div 365
        doy == doe - (365 * yoe + yoe \div 4 - yoe \div 100)
        mp == (5 * doy + 2) \div 153
        d == doy - (153 * mp + 2) \div 5 + 1
        m == IF mp < 10 THEN mp + 3 ELSE mp - 9
        y == yoe + era * 400 + (IF m <= 2 THEN 1 ELSE 0)
    IN <<y, m, d>>

\* date(y, m, d).toordinal()
ordinal_from_civil(y, m, d) ==
    LET yy == IF m <= 2 THEN y - 1 ELSE y
        era == yy \div 400
        yoe == yy - era * 400
        mp == IF m > 2 THEN m - 3 ELSE m + 9
        doy == (153 * mp + 2) \div 5 + d - 1
        doe == yoe * 365 + yoe \div 4 - yoe \div 100 + doy
    IN era * 146097 + doe - 305

Digits == <<"0", "1", "2", "3", "4", "5", "6", "7", "8", "9">>

\* zero-padded decimal of n in w characters (%Y is 4 wide, %m and %d are 2)
RECURSIVE Pad(_, _)
Pad(n, w) == IF w = 0 THEN <<>> ELSE Append(Pad(n \div 10, w - 1), Digits[(n % 10) + 1])

\* date.strftime("%Y-%m-%d")
strftime(n) ==
    LET c == civil_from_ordinal(n)
    IN Pad(c[1], 4) \o <<"-">> \o Pad(c[2], 2) \o <<"-">> \o Pad(c[3], 2)

\* default_date_range(start_date, end_date) with the clock reading `now`
default_date_range(start, end, now) ==
    LET e == IF ~Truthy(end) THEN Some(strftime(now)) ELSE end
        six_months_ago == now - TimedeltaDays
        s == IF ~Truthy(start) THEN Some(strftime(six_months_ago)) ELSE start
    IN <<s, e>>

\* -------------------------------------------------------------- key loading
KeyField == "api_key"

\* the csv.DictReader rows of api_keys.csv: blank lines are skipped, a field
\* missing from a short line is filled with None (restval)
DictReader(csvfile) ==
    LET names == csvfile.fieldnames
        lines == csvfile.lines
        row(line) == [f \in Range(names) |->
                         LET i == CHOOSE k \in 1..Len(names) : names[k] = f
                         IN IF i <= Len(line) THEN Some(line[i]) ELSE None]
    IN {row(lines[n]) : n \in {k \in 1..Len(lines) : lines[k] # <<>>}}

\* keys taken from the CSV file (None when the file does not exist)
csv_keys(file) ==
    IF file = None THEN {}
    ELSE {row[KeyField] : row \in {r \in DictReader(file[1]) : KeyField \in DOMAIN r}}

\* keys taken from the API_KEYS environment variable (an Optional[str])
env_key_set(env_keys) ==
    IF Truthy(env_keys)
    THEN LET parts == split(env_keys[1], ",")
         IN {Some(strip(parts[i])) : i \in {k \in 1..Len(parts) : strip(parts[k]) # <<>>}}
    ELSE {}

\* the module-level API_KEYS set after import
load_api_keys(file, env_keys) == csv_keys(file) \cup env_key_set(env_keys)

\* get_api_key: TRUE when the header value is accepted, FALSE when 401 is raised
get_api_key(header, keys) == header \in keys

\* ------------------------------------------------------------------- store
TableNames == <<"equity", "performance", "trades">>

\* sqlite_master lookup: None when the table is absent, else Some(column list)
Lookup(cat, t) == IF t \in DOMAIN cat THEN cat[t] ELSE None

\* table_exists that answers without looking the table up
table_exists_always(cat, t) == TRUE

\* table_exists(table_name)
table_exists(cat, t) == Lookup(cat, t) # None

\* fetch_all_columns that answers from a configured column list for the equity table
fetch_configured_columns(cat, t) ==
    IF t = "equity" THEN <<"date", "equity_model", "equity_bh">>
    ELSE IF Lookup(cat, t) = None THEN <<>> ELSE Lookup(cat, t)[1]

\* fetch_all_columns(table_name): PRAGMA table_info returns no row for a missing table
fetch_all_columns(cat, t) == IF Lookup(cat, t) = None THEN <<>> ELSE Lookup(cat, t)[1]

\* SELECT name FROM sqlite_master WHERE type='table' ORDER BY name
master_tables(cat) == SelectSeq(TableNames, LAMBDA t : Lookup(cat, t) # None)

SqlWords == {"SELECT", "FROM", "WHERE", "AND", "ORDER BY", "IN", "LIMIT",
             "(", ")", ",", "?", "=", ">=", "<=", "*"}

\* the column names a statement refers to
ColumnRefs(q) ==
    {q[i] : i \in {k \in 1..Len(q) : q[k] \notin SqlWords /\ (k = 1 \/ q[k - 1] # "FROM")}}

\* the table a statement reads
FromTable(q) == q[(CHOOSE k \in 1..Len(q) : q[k] = "FROM") + 1]

Placeholders(q) == Cardinality({k \in 1..Len(q) : q[k] = "?"})

\* conn.execute(query, params): "rows" or the sqlite3 exception raised
execute(cat, q, p) ==
    IF Lookup(cat, FromTable(q)) = None THEN "OperationalError"
    ELSE IF ~(ColumnRefs(q) \subseteq Range(Lookup(cat, FromTable(q))[1])) THEN "OperationalError"
    ELSE IF Placeholders(q) # Len(p) THEN "ProgrammingError"
    ELSE "rows"

\* ---------------------------------------------------------------- builders
NoFilters == [filters |-> <<>>, params |-> <<>>]

\* filters.append(fragment); params.extend(values) when the condition holds
AddFilter(fp, cond, fragment, values) ==
    IF cond THEN [filters |-> Append(fp.filters, fragment), params |-> fp.params \o values]
    ELSE fp

\* metric_list = [m.strip() for m in metrics.split(",") if m.strip()]
metric_list(metrics) ==
    LET parts == split(metrics, ",")
        stripped == [i \in 1..Len(parts) |-> strip(parts[i])]
    IN SelectSeq(stripped, LAMBDA m : m # <<>>)

\* ",".join("?" * n)
placeholders(n) == join(",", [i \in 1..n |-> <<"?">>])

\* equity_filters that adds the date range without looking at the column list
equity_filters_unguarded(symbol, horizon, start, end, c) ==
    LET f1 == AddFilter(NoFilters, Truthy(symbol) /\ In("symbol", c),
                        <<"symbol", "=", "?">>, symbol)
        f2 == AddFilter(f1, Truthy(horizon) /\ In("horizon", c),
                        <<"horizon", "=", "?">>, horizon)
    IN AddFilter(f2, TRUE,
                 <<"date", ">=", "?", "AND", "date", "<=", "?">>, start \o end)

\* get_equity, lines 129-139
equity_filters(symbol, horizon, start, end, c) ==
    LET f1 == AddFilter(NoFilters, Truthy(symbol) /\ In("symbol", c),
                        <<"symbol", "=", "?">>, symbol)
        f2 == AddFilter(f1, Truthy(horizon) /\ In("horizon", c),
                        <<"horizon", "=", "?">>, horizon)
    IN AddFilter(f2, In("date", c),
                 <<"date", ">=", "?", "AND", "date", "<=", "?">>, start \o end)

\* get_performance, lines 159-171
performance_filters(symbol, horizon, metrics, c) ==
    LET f1 == AddFilter(NoFilters, Truthy(symbol) /\ In("symbol", c),
                        <<"symbol", "=", "?">>, symbol)
        f2 == AddFilter(f1, Truthy(horizon) /\ In("horizon", c),
                        <<"horizon", "=", "?">>, horizon)
        ml == IF Truthy(metrics) THEN metric_list(metrics[1]) ELSE <<>>
    IN AddFilter(f2, Truthy(metrics) /\ In("metric", c),
                 <<"metric", "IN", "(">> \o placeholders(Len(ml)) \o <<")">>, ml)

\* get_trades, lines 191-201
trades_filters(symbol, horizon, start, end, c) ==
    LET f1 == AddFilter(NoFilters, Truthy(symbol) /\ In("symbol", c),
                        <<"symbol", "=", "?">>, symbol)
        f2 == AddFilter(f1, Truthy(horizon) /\ In("horizon", c),
                        <<"horizon", "=", "?">>, horizon)
    IN AddFilter(f2, In("trade_date", c),
                 <<"trade_date", ">=", "?", "AND", "trade_date", "<=", "?">>, start \o end)

\* where_clause = f"WHERE {' AND '.join(filters)}" if filters else ""
where_clause(fs) == IF fs # <<>> THEN <<"WHERE">> \o join("AND", fs) ELSE <<>>

CurveColumns == <<"date", "equity_model", "equity_bh">>

\* select that asks for any of the curve columns instead of all of them
select_any(curve_only, c) ==
    IF curve_only /\ \E i \in 1..Len(CurveColumns) : In(CurveColumns[i], c)
    THEN CurveColumns ELSE c

\* select_cols of get_equity, line 142
select(curve_only, c) ==
    IF curve_only /\ \A i \in 1..Len(CurveColumns) : In(CurveColumns[i], c)
    THEN CurveColumns ELSE c

\* ", ".join(select_cols)
column_list(sel) == join(",", [i \in 1..Len(sel) |-> <<sel[i]>>])

\* the f-string of get_equity, line 144 (needs select_cols[0])
equity_query(sel, fs) ==
    <<"SELECT">> \o column_list(sel) \o <<"FROM", "equity">> \o where_clause(fs)
        \o <<"ORDER BY", sel[1]>>

\* the f-string of get_performance, line 174
performance_query(fs) == <<"SELECT", "*", "FROM", "performance">> \o where_clause(fs)

\* the f-string of get_trades, line 204
trades_query(fs) ==
    <<"SELECT", "*", "FROM", "trades">> \o where_clause(fs) \o <<"ORDER BY", "trade_date">>

\* the f-string of preview_table, line 111
preview_query(t) == <<"SELECT", "*", "FROM", t, "LIMIT", "?">>

\* ------------------------------------------------------------------ inputs
Str_a == <<"a">>
Str_b == <<"b">>
Str_u == <<"u">>

\* api_keys.csv: absent, or a header line and data lines (a line is its fields)
CsvLines == {<<>>, <<Str_u>>, <<Str_u, Str_a>>}

RECURSIVE SeqsUpTo(_, _)
SeqsUpTo(S, n) ==
    IF n = 0 THEN {<<>>}
    ELSE LET shorter == SeqsUpTo(S, n - 1)
         IN shorter \cup {Append(s, x) : s \in shorter, x \in S}

CsvFiles ==
    {None} \cup {Some([fieldnames |-> h, lines |-> ls]) :
                    h \in {<<"name", "api_key">>, <<"name", "key">>},
                    ls \in SeqsUpTo(CsvLines, MaxCsvRows)}

EnvValues == {None} \cup {Some(s) : s \in StringsUpTo({"a", ",", " "}, MaxEnvLen)}

\* x-api-key header values (None: header missing)
Headers == {None, Some(Str_a), Some(Str_b)}

Endpoints == {"/tables", "/preview", "/equity", "/performance", "/trades"}

PreviewTables == {"equity", "performance", "trades", "doesnotexist"}
Limits == {3, 5}
SymbolArgs == {None, Some(<<>>), Some(<<"A">>)}
HorizonArgs == {None, Some(<<"1", "d">>)}
StartArgs == {None, Some(<<"2", "0", "2", "4", "-", "0", "1", "-", "0", "1">>)}
EndArgs == {None, Some(<<"2", "0", "2", "4", "-", "0", "6", "-", "3", "0">>)}
MetricsArgs == {None} \cup {Some(s) : s \in StringsUpTo({"s", "t", ",", " "}, MaxMetricsLen)}

\* readings of datetime.today(): 2024-06-30 and 2024-08-30
Clock == {ordinal_from_civil(2024, 6, 30), ordinal_from_civil(2024, 8, 30)}

\* table definitions another client of the store may create
Schemas ==
    [equity |-> {<<"date", "equity_model", "equity_bh">>,
                 <<"equity_bh", "symbol", "equity_model">>},
     performance |-> {<<"symbol", "horizon", "metric", "value">>, <<"symbol", "value">>},
     trades |-> {<<"symbol", "horizon", "trade_date", "pnl">>, <<"horizon", "pnl">>}]

\* columns another client may add with ALTER TABLE ... ADD COLUMN
Addable == [equity |-> {"date"}, performance |-> {}, trades |-> {}]

\* the stores the service may be started on
InitCatalogs ==
    {cat \in [Range(TableNames) ->
                 {None} \cup {Some(c) : c \in UNION {Schemas[t] : t \in Range(TableNames)}}] :
        \A t \in Range(TableNames) : cat[t] = None \/ cat[t][1] \in Schemas[t]}

\* ------------------------------------------------------------------- state
VARIABLES
    API_KEYS,        \* the key set loaded at import
    catalog,         \* the store: table name -> None or Some(column list)
    pc,              \* position of the request being handled
    endpoint,        \* its path
    api_key_header,  \* its x-api-key header
    args,            \* the query parameters the handler was called with
    today,           \* the clock reading of default_date_range
    dates,           \* <<start_date, end_date>> after default_date_range
    cols, filters, params, select_cols, query,   \* locals of the handler
    tables, schema,  \* locals of list_tables
    response,        \* what the request answered
    live,            \* unclosed connections a running frame still refers to
    garbage,         \* unclosed connections nothing refers to any more
    opened,          \* connections opened while handling this request
    pragmas,         \* PRAGMA table_info statements run in this request
    selects          \* statements run on the target table in this request

vars == <<API_KEYS, catalog, pc, endpoint, api_key_header, args, today, dates, cols,
          filters, params, select_cols, query, tables, schema, response, live, garbage,
          opened, pragmas, selects>>

locals == <<args, today, dates, cols, filters, params, select_cols, query, tables, schema>>

NoArgs == [table |-> None, limit |-> None, symbol |-> None, horizon |-> None,
           start_date |-> None, end_date |-> None, curve_only |-> FALSE, metrics |-> None]

NoResponse == [status |-> 0, kind |-> "none", detail |-> <<>>]

Unauthorized == [status |-> 401, kind |-> "detail", detail |-> <<"Unauthorized">>]

Rows == [status |-> 200, kind |-> "rows", detail |-> <<>>]

SchemaBody == [status |-> 200, kind |-> "schema", detail |-> <<>>]

\* {"error": f"Table '{table}' not found in database."}
NotFound(t) == [status |-> 200, kind |-> "error",
                detail |-> <<"Table '", t, "' not found in database.">>]

\* {"error": f"Table '{table}' has no columns."}
NoColumns(t) == [status |-> 200, kind |-> "error",
                 detail |-> <<"Table '", t, "' has no columns.">>]

\* an exception no handler catches: the framework answers 500
Unhandled(exc) == [status |-> 500, kind |-> "exception", detail |-> <<exc>>]

ResetLocals ==
    /\ args = NoArgs /\ today = 0 /\ dates = <<None, None>> /\ cols = <<>>
    /\ filters = <<>> /\ params = <<>> /\ select_cols = <<>> /\ query = <<>>
    /\ tables = <<>> /\ schema = <<>>

\* the api_keys.csv that src/api_test.py expects: one line holding one key
TestCsv == Some([fieldnames |-> <<"name", "api_key">>, lines |-> <<<<Str_u, Str_a>>>>])

InitWith(files, envs) ==
    /\ \E file \in files, env_keys \in envs : API_KEYS = load_api_keys(file, env_keys)
    /\ catalog \in InitCatalogs
    /\ pc = "idle" /\ endpoint = "" /\ api_key_header = None
    /\ ResetLocals
    /\ response = NoResponse
    /\ live = 0 /\ garbage = 0 /\ opened = 0 /\ pragmas = 0 /\ selects = 0

\* the service started with the key file of the test script and no API_KEYS variable
Init == InitWith({TestCsv}, {None})

\* the service started with any key file and any API_KEYS variable
InitKeys == InitWith(CsvFiles, EnvValues)

\* ----------------------------------------------------------------- actions
\* the handler's frame is gone: its locals are dropped
ClearLocals ==
    /\ args' = NoArgs /\ today' = 0 /\ dates' = <<None, None>> /\ cols' = <<>>
    /\ filters' = <<>> /\ params' = <<>> /\ select_cols' = <<>> /\ query' = <<>>
    /\ tables' = <<>> /\ schema' = <<>>

FirstStep(e) ==
    CASE e = "/tables" -> "list_tables"
      [] e = "/preview" -> "preview_exists"
      [] e = "/equity" -> "equity_exists"
      [] e = "/performance" -> "performance_exists"
      [] e = "/trades" -> "trades_exists"

\* a request arrives; the get_api_key dependency runs before the handler
StartRequest ==
    /\ pc = "idle"
    /\ garbage <= MaxGarbage
    /\ \E e \in Endpoints, h \in Headers :
        /\ endpoint' = e
        /\ api_key_header' = h
        /\ IF get_api_key(h, API_KEYS)
           THEN pc' = FirstStep(e) /\ response' = NoResponse
           ELSE pc' = "done" /\ response' = Unauthorized
    /\ UNCHANGED <<API_KEYS, catalog, locals, live, garbage, opened, pragmas, selects>>

\* the response has been sent
FinishRequest ==
    /\ pc = "done"
    /\ pc' = "idle"
    /\ ClearLocals
    /\ endpoint' = "" /\ api_key_header' = None /\ response' = NoResponse
    /\ opened' = 0 /\ pragmas' = 0 /\ selects' = 0
    /\ UNCHANGED <<API_KEYS, catalog, live, garbage>>

\* one call of a helper that opens a connection, reads and returns: the
\* `with` block commits but does not close, and the connection is unreferenced
\* once the helper has returned
HelperCall == opened' = opened + 1 /\ garbage' = garbage + 1 /\ live' = live

\* the handler returns or raises: the connections its frame held are unreferenced
Return(r) == pc' = "done" /\ response' = r

\* list_tables, lines 91-94
list_tables_query ==
    /\ pc = "list_tables"
    /\ tables' = master_tables(catalog)
    /\ opened' = opened + 1
    /\ selects' = selects
    /\ IF tables' = <<>>
       THEN Return(SchemaBody) /\ live' = 0 /\ garbage' = garbage + 1
       ELSE pc' = "list_tables_loop" /\ live' = 1 /\ garbage' = garbage /\ response' = response
    /\ UNCHANGED <<API_KEYS, catalog, endpoint, api_key_header, args, today, dates, cols,
                   filters, params, select_cols, query, schema, pragmas>>

\* list_tables, lines 96-99: one iteration, and the return after the last one
list_tables_loop ==
    /\ pc = "list_tables_loop"
    /\ schema' = (Head(tables) :> fetch_all_columns(catalog, Head(tables))) @@ schema
    /\ tables' = Tail(tables)
    /\ opened' = opened + 1
    /\ pragmas' = pragmas + 1
    /\ IF tables' = <<>>
       THEN Return(SchemaBody) /\ live' = 0 /\ garbage' = garbage + 1 + live
       ELSE pc' = pc /\ live' = live /\ garbage' = garbage + 1 /\ response' = response
    /\ UNCHANGED <<API_KEYS, catalog, endpoint, api_key_header, args, today, dates, cols,
                   filters, params, select_cols, query, selects>>

\* the existence check that opens preview_table, get_equity, get_performance
\* and get_trades
ExistsStep(t, next) ==
    /\ HelperCall
    /\ IF ~table_exists(catalog, t)
       THEN Return(NotFound(t))
       ELSE pc' = next /\ response' = response
    /\ UNCHANGED <<API_KEYS, catalog, endpoint, api_key_header, today, dates, cols,
                   filters, params, select_cols, query, tables, schema, pragmas, selects>>

\* the final `with get_connection() as conn: rows = conn.execute(query, params)`
ExecuteStep ==
    /\ opened' = opened + 1 /\ garbage' = garbage + 1 /\ live' = live
    /\ selects' = selects + 1
    /\ LET r == execute(catalog, query, params)
       IN Return(IF r = "rows" THEN Rows ELSE Unhandled(r))
    /\ UNCHANGED <<API_KEYS, catalog, endpoint, api_key_header, locals, pragmas>>

\* preview_table, lines 106-107
preview_exists ==
    /\ pc = "preview_exists"
    /\ \E t \in PreviewTables, n \in Limits :
        /\ args' = [args EXCEPT !.table = Some(t), !.limit = Some(n)]
        /\ ExistsStep(t, "preview_columns")

\* preview_table, lines 108-111
preview_columns ==
    /\ pc = "preview_columns"
    /\ HelperCall
    /\ pragmas' = pragmas + 1
    /\ cols' = fetch_all_columns(catalog, args.table[1])
    /\ IF cols' = <<>>
       THEN Return(NoColumns(args.table[1])) /\ UNCHANGED <<query, params>>
       ELSE /\ query' = preview_query(args.table[1])
            /\ params' = args.limit
            /\ pc' = "preview_query" /\ response' = response
    /\ UNCHANGED <<API_KEYS, catalog, endpoint, api_key_header, args, today, dates,
                   filters, select_cols, tables, schema, selects>>

\* preview_table, lines 112-114
preview_execute ==
    /\ pc = "preview_query"
    /\ ExecuteStep

\* get_equity, lines 124-125
equity_exists ==
    /\ pc = "equity_exists"
    /\ args' = args
    /\ ExistsStep("equity", "equity_columns")

\* get_equity, lines 127-144
equity_build ==
    /\ pc = "equity_columns"
    /\ HelperCall
    /\ pragmas' = pragmas + 1
    /\ \E symbol \in SymbolArgs, horizon \in HorizonArgs, start \in StartArgs,
          end \in EndArgs, curve_only \in BOOLEAN, now \in Clock :
        LET c == fetch_all_columns(catalog, "equity")
            dr == default_date_range(start, end, now)
            fp == equity_filters(symbol, horizon, dr[1], dr[2], c)
            sel == select(curve_only, c)
        IN /\ args' = [args EXCEPT !.symbol = symbol, !.horizon = horizon,
                                   !.start_date = start, !.end_date = end,
                                   !.curve_only = curve_only]
           /\ today' = now
           /\ dates' = dr
           /\ cols' = c
           /\ filters' = fp.filters
           /\ params' = fp.params
           /\ select_cols' = sel
           /\ IF sel = <<>>
              THEN Return(Unhandled("IndexError")) /\ query' = query
              ELSE /\ query' = equity_query(sel, fp.filters)
                   /\ pc' = "equity_query" /\ response' = response
    /\ UNCHANGED <<API_KEYS, catalog, endpoint, api_key_header, tables, schema, selects>>

\* get_equity, lines 145-147
equity_execute ==
    /\ pc = "equity_query"
    /\ ExecuteStep

\* get_performance, lines 155-156
performance_exists ==
    /\ pc = "performance_exists"
    /\ args' = args
    /\ ExistsStep("performance", "performance_columns")

\* get_performance, lines 158-174
performance_build ==
    /\ pc = "performance_columns"
    /\ HelperCall
    /\ pragmas' = pragmas + 1
    /\ \E symbol \in SymbolArgs, horizon \in HorizonArgs, metrics \in MetricsArgs :
        LET c == fetch_all_columns(catalog, "performance")
            fp == performance_filters(symbol, horizon, metrics, c)
        IN /\ args' = [args EXCEPT !.symbol = symbol, !.horizon = horizon,
                                   !.metrics = metrics]
           /\ cols' = c
           /\ filters' = fp.filters
           /\ params' = fp.params
           /\ query' = performance_query(fp.filters)
    /\ pc' = "performance_query" /\ response' = response
    /\ UNCHANGED <<API_KEYS, catalog, endpoint, api_key_header, today, dates, select_cols,
                   tables, schema, selects>>

\* get_performance, lines 175-177
performance_execute ==
    /\ pc = "performance_query"
    /\ ExecuteStep

\* get_trades, lines 186-187
trades_exists ==
    /\ pc = "trades_exists"
    /\ args' = args
    /\ ExistsStep("trades", "trades_columns")

\* get_trades, lines 189-204
trades_build ==
    /\ pc = "trades_columns"
    /\ HelperCall
    /\ pragmas' = pragmas + 1
    /\ \E symbol \in SymbolArgs, horizon \in HorizonArgs, start \in StartArgs,
          end \in EndArgs, now \in Clock :
        LET c == fetch_all_columns(catalog, "trades")
            dr == default_date_range(start, end, now)
            fp == trades_filters(symbol, horizon, dr[1], dr[2], c)
        IN /\ args' = [args EXCEPT !.symbol = symbol, !.horizon = horizon,
                                   !.start_date = start, !.end_date = end]
           /\ today' = now
           /\ dates' = dr
           /\ cols' = c
           /\ filters' = fp.filters
           /\ params' = fp.params
           /\ query' = trades_query(fp.filters)
    /\ pc' = "trades_query" /\ response' = response
    /\ UNCHANGED <<API_KEYS, catalog, endpoint, api_key_header, select_cols, tables,
                   schema, selects>>

\* get_trades, lines 205-207
trades_execute ==
    /\ pc = "trades_query"
    /\ ExecuteStep

\* ------------------------------------------------------------- environment
env_unchanged == <<API_KEYS, pc, endpoint, api_key_header, locals, response, live, garbage,
                   opened, pragmas, selects>>

\* another client of the store creates a table
CreateTable ==
    /\ pc # "done"
    /\ \E t \in Range(TableNames) :
        /\ catalog[t] = None
        /\ \E c \in Schemas[t] : catalog' = [catalog EXCEPT ![t] = Some(c)]
    /\ UNCHANGED env_unchanged

\* another client of the store drops a table
DropTable ==
    /\ pc # "done"
    /\ \E t \in Range(TableNames) :
        /\ catalog[t] # None
        /\ catalog' = [catalog EXCEPT ![t] = None]
    /\ UNCHANGED env_unchanged

\* another client of the store adds a column to a table
AddColumn ==
    /\ pc # "done"
    /\ \E t \in Range(TableNames) :
        /\ catalog[t] # None
        /\ \E c \in Addable[t] :
            /\ ~In(c, catalog[t][1])
            /\ catalog' = [catalog EXCEPT ![t] = Some(Append(catalog[t][1], c))]
    /\ UNCHANGED env_unchanged

\* the interpreter finalizes the unreferenced connections, which closes them
\* (at once under reference counting, at some later collection otherwise)
Finalize ==
    /\ garbage > 0
    /\ garbage' = 0
    /\ UNCHANGED <<API_KEYS, catalog, pc, endpoint, api_key_header, locals, response, live,
                   opened, pragmas, selects>>

Next ==
    \/ StartRequest
    \/ FinishRequest
    \/ list_tables_query
    \/ list_tables_loop
    \/ preview_exists
    \/ preview_columns
    \/ preview_execute
    \/ equity_exists
    \/ equity_build
    \/ equity_execute
    \/ performance_exists
    \/ performance_build
    \/ performance_execute
    \/ trades_exists
    \/ trades_build
    \/ trades_execute
    \/ CreateTable
    \/ DropTable
    \/ AddColumn
    \/ Finalize

Spec == Init /\ [][Next]_vars

SpecKeys == InitKeys /\ [][Next]_vars

\* ------------------------------------------------------------------ claims
\* the handler has read the column list of its table in this request
Built(e) == endpoint = e /\ pragmas > 0 /\ pc \in {"equity_query", "performance_query",
                                                   "trades_query", "done"}

FilterEndpoints == {"/equity", "/performance", "/trades"}

FilterColumns == {"symbol", "horizon", "date", "trade_date", "metric"}

RECURSIVE Flatten(_)
Flatten(ss) == IF ss = <<>> THEN <<>> ELSE Head(ss) \o Flatten(Tail(ss))

\* the values a fragment's placeholders stand for, in placeholder order
Bound(fragment) ==
    CASE fragment[1] = "symbol" -> args.symbol
      [] fragment[1] = "horizon" -> args.horizon
      [] fragment[1] \in {"date", "trade_date"} -> dates[1] \o dates[2]
      [] fragment[1] = "metric" -> metric_list(args.metrics[1])

\* the CurveColumns are all in the column list
CurveAvailable == \A i \in 1..Len(CurveColumns) : In(CurveColumns[i], cols)

\* the ORDER BY key of a statement
OrderKey(q) == q[(CHOOSE k \in 1..Len(q) : q[k] = "ORDER BY") + 1]

DigitValue(c) == (CHOOSE i \in 1..10 : Digits[i] = c) - 1

RECURSIVE Number(_)
Number(s) == IF s = <<>> THEN 0 ELSE 10 * Number(SubSeq(s, 1, Len(s) - 1)) + DigitValue(s[Len(s)])

\* the ordinal of a YYYY-MM-DD string
strptime(s) ==
    ordinal_from_civil(Number(SubSeq(s, 1, 4)), Number(SubSeq(s, 6, 7)), Number(SubSeq(s, 9, 10)))

\* the catalog's own column list of a table
LiveColumns(cat, t) == IF t \in DOMAIN cat /\ cat[t] # <<>> THEN cat[t][1] ELSE <<>>

LiveTables(cat) == {t \in DOMAIN cat : cat[t] # <<>>}

\* C1: a request whose x-api-key header is missing, or is not one of the loaded
\* keys, is answered with 401 and opens no store connection, whatever key set
\* was loaded.
C1_InvalidKeyRejected ==
    (pc # "idle" /\ (api_key_header = None \/ api_key_header \notin API_KEYS))
        => (response = Unauthorized /\ opened = 0)

\* C2: default_date_range returns end unchanged when present and today's date
\* when absent, and start unchanged when present and the date 182 days before
\* the returned end when absent.
C2_WindowEndsAtReturnedEnd ==
    (endpoint \in {"/equity", "/trades"} /\ today # 0) =>
        LET e == IF Truthy(args.end_date) THEN args.end_date ELSE Some(strftime(today))
            s == IF Truthy(args.start_date) THEN args.start_date
                 ELSE Some(strftime(strptime(e[1]) - TimedeltaDays))
        IN dates = <<s, e>>

\* C3: in /equity, /performance and /trades a filter whose column is not in the
\* introspected column list contributes no fragment and no parameter, the
\* number of bound parameters equals the number of '?' in the fragments, and
\* the parameters are the fragments' values in placeholder order.
C3_FiltersMatchColumnsAndParams ==
    \A e \in FilterEndpoints :
        Built(e) =>
            /\ \A i \in 1..Len(filters) : \A k \in 1..Len(filters[i]) :
                   filters[i][k] \in FilterColumns => In(filters[i][k], cols)
            /\ Len(params) = Placeholders(Flatten(filters))
            /\ \A i \in 1..Len(filters) : Len(Bound(filters[i])) = Placeholders(filters[i])
            /\ params = Flatten([i \in 1..Len(filters) |-> Bound(filters[i])])

\* C3 witness: /performance built on a table without a metric column, with a
\* metrics value and a symbol given: only the symbol is filtered and bound
C3_Witness ==
    /\ Built("/performance")
    /\ Truthy(args.metrics) /\ ~In("metric", cols)
    /\ filters = <<<<"symbol", "=", "?">>>>
    /\ params = <<<<"A">>>>

\* C4 as stated: the projection of /equity is [date, equity_model, equity_bh]
\* if and only if curve_only is true and all three are in the column list, in
\* every other case it is the column list unchanged, and the ORDER BY key is
\* the first element of the projection.
C4_ReducedIffCurveOnly ==
    Built("/equity") =>
        /\ (select_cols = CurveColumns) <=> (args.curve_only /\ CurveAvailable)
        /\ ~(args.curve_only /\ CurveAvailable) => select_cols = cols
        /\ query # <<>> => OrderKey(query) = select_cols[1]

\* C4 as amended: the projection of /equity is [date, equity_model, equity_bh]
\* if curve_only is true and all three are in the column list, in every other
\* case it is the column list unchanged (which is that same list when the
\* table has exactly these columns in this order), and the ORDER BY key is the
\* first element of the projection.
C4_ReducedIfCurveOnly ==
    Built("/equity") =>
        /\ (args.curve_only /\ CurveAvailable) => select_cols = CurveColumns
        /\ ~(args.curve_only /\ CurveAvailable) => select_cols = cols
        /\ query # <<>> => OrderKey(query) = select_cols[1]

\* C4 witness: curve_only on a table that has the three columns among others,
\* in another order
C4_Witness ==
    /\ Built("/equity") /\ pc = "equity_query"
    /\ args.curve_only /\ cols # CurveColumns
    /\ select_cols = CurveColumns /\ OrderKey(query) = "date"

\* the table the existence check of the current step is about
CheckedTable ==
    CASE pc = "preview_exists" -> args'.table[1]
      [] pc = "equity_exists" -> "equity"
      [] pc = "performance_exists" -> "performance"
      [] pc = "trades_exists" -> "trades"

\* C5: when the table is absent at the existence check, /preview, /equity,
\* /performance and /trades answer 200 with {error: "Table '<name>' not found
\* in database."} and run no column introspection and no statement on it.
C5_AbsentTableInBandError ==
    [][(pc \in {"preview_exists", "equity_exists", "performance_exists", "trades_exists"}
          /\ pc' # pc /\ CheckedTable \notin LiveTables(catalog))
         => /\ pc' = "done"
            /\ response'.status = 200 /\ response'.kind = "error"
            /\ response'.detail = <<"Table '", CheckedTable, "' not found in database.">>
            /\ pragmas' = 0 /\ selects' = 0]_vars

\* C5 witness: /preview of a table the store does not have
C5_Witness ==
    /\ pc = "done" /\ endpoint = "/preview" /\ args.table = Some("doesnotexist")
    /\ response = NotFound("doesnotexist") /\ opened = 1

\* C6: every connection opened while handling a request is closed by the time
\* the request finishes, so no connection is open between requests.
C6_ConnectionsClosed == pc \in {"done", "idle"} => live + garbage = 0

\* C7: in /performance with a metric column, a metric IN fragment is emitted
\* if and only if the metrics value names at least one non-empty metric, with
\* one placeholder per trimmed name, bound in request order; an empty value or
\* one that yields no name is skipped like an absent one.
C7_MetricFragmentIffNames ==
    (Built("/performance") /\ In("metric", cols)) =>
        LET names == IF args.metrics = None THEN <<>> ELSE metric_list(args.metrics[1])
            emitted == {i \in 1..Len(filters) : filters[i][1] = "metric"}
        IN /\ (emitted # {}) <=> (names # <<>>)
           /\ \A i \in emitted :
                /\ filters[i] = <<"metric", "IN", "(">> \o placeholders(Len(names)) \o <<")">>
                /\ SubSeq(params, Len(params) - Len(names) + 1, Len(params)) = names

\* C8: the column list a request uses is the catalog's column list of that
\* table at the moment the request reads it, and /tables lists every table the
\* store has when it reads the table list and keeps one entry for each.
C8_IntrospectionIsLive ==
    [][/\ (pc = "preview_columns" /\ pc' # pc) => cols' = LiveColumns(catalog, args.table[1])
       /\ (pc = "equity_columns" /\ pc' # pc) => cols' = LiveColumns(catalog, "equity")
       /\ (pc = "performance_columns" /\ pc' # pc) => cols' = LiveColumns(catalog, "performance")
       /\ (pc = "trades_columns" /\ pc' # pc) => cols' = LiveColumns(catalog, "trades")
       /\ (pc = "list_tables" /\ pc' # pc) =>
              Range(tables') \cup DOMAIN schema' = LiveTables(catalog)
       /\ (pc = "list_tables_loop" /\ tables' # tables) =>
              /\ Range(tables') \cup DOMAIN schema' = Range(tables) \cup DOMAIN schema
              /\ Head(tables) \in DOMAIN schema'
              /\ schema'[Head(tables)] = LiveColumns(catalog, Head(tables))
              /\ \A t \in DOMAIN schema : schema'[t] = schema[t]]_vars

\* C8 witness: /equity uses a column list that exists only after another client
\* added a column to the table
C8_Witness ==
    /\ Built("/equity") /\ pc = "equity_query"
    /\ cols = <<"equity_bh", "symbol", "equity_model", "date">>

\* C9: every column name in the SQL text of /equity, /performance and /trades
\* is in the column list introspected in the same request.
C9_QueryNamesIntrospectedColumns ==
    \A e \in FilterEndpoints :
        (Built(e) /\ query # <<>>) => ColumnRefs(query) \subseteq Range(cols)

\* C10: whenever /equity has read its columns, either its projection is a
\* non-empty list of those columns or (the column list being empty) the
\* request ends with an in-band {error} payload, never an unhandled failure.
C10_EquityProjectionNonEmpty ==
    Built("/equity") =>
        \/ select_cols # <<>> /\ Range(select_cols) \subseteq Range(cols)
        \/ pc = "done" /\ response.status = 200 /\ response.kind = "error"

====
